---- MODULE Spec2Model ----
(***************************************************************************)
(* Model of analyze_udf_overhead_bench.py: the pipeline                    *)
(*   parse_data -> regression -> calc_delta (x3)                           *)
(* run by main, with the tables printed by print_df recorded in `out`.     *)
(*                                                                         *)
(* Strings are sequences of one-character strings so that the two regular  *)
(* expressions of parse_data are matched character by character.           *)
(* Floating-point values are modelled as exact rationals [num, den].       *)
(***************************************************************************)
EXTENDS Integers, Sequences, FiniteSets, TLC

VARIABLES
    pc,            \* position of main / parse_data
    file,          \* the lines of the profile file (parsed JSON objects)
    metric,        \* args.metric
    pos,           \* number of lines the loop of parse_data has consumed
    l_mode,        \* parse_data's local list `mode`
    l_batchsize,   \* parse_data's local list `batchsize`
    l_batches,     \* parse_data's local list `batches`
    l_cost,        \* parse_data's local list `cost`
    obs,           \* the DataFrame returned by parse_data (None before)
    model,         \* the DataFrame returned by regression (None before)
    out            \* what print_df has printed: a sequence of [title, df]

vars == <<pc, file, metric, pos, l_mode, l_batchsize, l_batches, l_cost,
          obs, model, out>>

\* a variable of main not yet assigned holds <<>>, an assigned one <<value>>
None == <<>>
Some(v) == <<v>>

-----------------------------------------------------------------------------
(* Bounds of the model                                                     *)

MaxLines == 3       \* lines of a profile file of the benchmark
MaxParseLines == 2  \* lines of a profile file that probes the parser

-----------------------------------------------------------------------------
(* Strings                                                                 *)

Lower == {"a","b","c","d","e","f","g","h","i","j","k","l","m",
          "n","o","p","q","r","s","t","u","v","w","x","y","z"}

DigitVal == [c \in {"0","1","2","3","4","5","6","7","8","9"} |->
               CASE c = "0" -> 0 [] c = "1" -> 1 [] c = "2" -> 2 [] c = "3" -> 3
                 [] c = "4" -> 4 [] c = "5" -> 5 [] c = "6" -> 6 [] c = "7" -> 7
                 [] c = "8" -> 8 [] c = "9" -> 9]

Digits == DOMAIN DigitVal

\* Alphabetical rank of the lowercase letters, for sorted() on mode names.
LowerRank == [c \in Lower |->
               CASE c = "a" -> 1 [] c = "b" -> 2 [] c = "c" -> 3 [] c = "d" -> 4
                 [] c = "e" -> 5 [] c = "f" -> 6 [] c = "g" -> 7 [] c = "h" -> 8
                 [] c = "i" -> 9 [] c = "j" -> 10 [] c = "k" -> 11 [] c = "l" -> 12
                 [] c = "m" -> 13 [] c = "n" -> 14 [] c = "o" -> 15 [] c = "p" -> 16
                 [] c = "q" -> 17 [] c = "r" -> 18 [] c = "s" -> 19 [] c = "t" -> 20
                 [] c = "u" -> 21 [] c = "v" -> 22 [] c = "w" -> 23 [] c = "x" -> 24
                 [] c = "y" -> 25 [] c = "z" -> 26]

L_bench == <<"b","e","n","c","h","_">>
L_batchsize == <<"b","a","t","c","h","s","i","z","e","_">>
L_batches == <<"_","b","a","t","c","h","e","s","_">>

\* s[from..] starts with the literal lit
StartsWithAt(s, from, lit) ==
    /\ from + Len(lit) - 1 <= Len(s)
    /\ SubSeq(s, from, from + Len(lit) - 1) = lit

\* length of the longest run of characters of class cls starting at s[from]
RECURSIVE RunLen(_, _, _)
RunLen(s, from, cls) ==
    IF from <= Len(s) /\ s[from] \in cls
    THEN 1 + RunLen(s, from + 1, cls)
    ELSE 0

\* int() of a string of decimal digits
RECURSIVE int(_)
int(d) ==
    IF Len(d) = 0 THEN 0
    ELSE 10 * int(SubSeq(d, 1, Len(d) - 1)) + DigitVal[d[Len(d)]]

\* fn_re.match(s): "bench_(?P<mode>[a-z]+)" anchored at the start only
fn_re(s) ==
    LET n == RunLen(s, Len(L_bench) + 1, Lower) IN
    IF StartsWithAt(s, 1, L_bench) /\ n >= 1
    THEN [ok |-> TRUE, mode |-> SubSeq(s, Len(L_bench) + 1, Len(L_bench) + n)]
    ELSE [ok |-> FALSE]

\* id_re.match(s): "batchsize_(?P<batchsize>[0-9]+)_batches_(?P<batches>[0-9]+)"
id_re(s) ==
    LET b1 == Len(L_batchsize) + 1
        n1 == RunLen(s, b1, Digits)
        b2 == b1 + n1 + Len(L_batches)
        n2 == RunLen(s, b2, Digits)
    IN  IF /\ StartsWithAt(s, 1, L_batchsize)
           /\ n1 >= 1
           /\ StartsWithAt(s, b1 + n1, L_batches)
           /\ n2 >= 1
        THEN [ok |-> TRUE,
              batchsize |-> SubSeq(s, b1, b1 + n1 - 1),
              batches |-> SubSeq(s, b2, b2 + n2 - 1)]
        ELSE [ok |-> FALSE]

\* Metric.valgrind_name
valgrind_name(m) ==
    CASE m = "cycles" -> "EstimatedCycles"
      [] m = "instructions" -> "Ir"

-----------------------------------------------------------------------------
(* The profile files the model reads                                       *)

\* a profile object: profile["summaries"]["total"]["summary"]["Callgrind"]
\* maps each valgrind metric to its ["metrics"]["Left"]["Int"]
Profile(c) == [EstimatedCycles |-> 2 * c, Ir |-> c]

Line(fn, id, profiles) == [function_name |-> fn, id |-> id, profiles |-> profiles]

Id(bs, bt) == L_batchsize \o bs \o L_batches \o bt

\* the instruction counts of the profiles; the cycle estimate is twice that
Costs == {0, 1}

\* lines as the benchmark writes them: mode a at three invocation shapes and
\* every cost, modes b and ab at one shape each
GoodLines ==
    {Line(L_bench \o <<"a">>, Id(<<"1">>, <<"1">>), <<Profile(c)>>) : c \in Costs}
    \cup {Line(L_bench \o <<"a">>, Id(<<"2">>, <<"1">>), <<Profile(c)>>) : c \in Costs}
    \cup {Line(L_bench \o <<"a">>, Id(<<"1">>, <<"2">>), <<Profile(c)>>) : c \in Costs}
    \cup {Line(L_bench \o <<"b">>, Id(<<"2">>, <<"1">>), <<Profile(1)>>),
          Line(L_bench \o <<"a", "b">>, Id(<<"1">>, <<"1">>), <<Profile(1)>>)}

\* a line that parse_data rejects
BadLines ==
    {Line(<<"b","e","n","c","h">>, Id(<<"1">>, <<"1">>), <<Profile(1)>>)}

Lines == GoodLines \cup BadLines

\* lines that probe the two regular expressions and the profiles list, each
\* differing from the line bench_a / batchsize_1_batches_1 / one profile in
\* one field
F_a == L_bench \o <<"a">>
I_11 == Id(<<"1">>, <<"1">>)
P_1 == <<Profile(1)>>

ParseLines ==
    {Line(F_a, I_11, <<Profile(c)>>) : c \in Costs}
    \cup {Line(fn, I_11, P_1) :
            fn \in {L_bench \o <<"b">>,
                    L_bench \o <<"a", "1", "z">>,      \* match stops at the digit
                    L_bench,                            \* no letter after bench_
                    L_bench \o <<"A">>,                 \* not a lowercase letter
                    <<"x">> \o F_a}}                    \* match() anchors at the start
    \cup {Line(F_a, id, P_1) :
            id \in {Id(<<"0">>, <<"1">>),
                    Id(<<"1">>, <<"0">>),
                    Id(<<"0", "2">>, <<"1", "0">>),
                    I_11 \o <<"_", "x">>,               \* match stops after the digits
                    Id(<<>>, <<"1">>),                  \* no digit for batchsize
                    Id(<<"1">>, <<>>),                  \* no digit for batches
                    Id(<<"1">>, <<"x">>),
                    <<"_">> \o I_11,
                    L_batchsize \o <<"1">> \o <<"_","b","a","t","c","h","_","1">>}}
    \cup {Line(F_a, I_11, ps) : ps \in {<<>>, <<Profile(1), Profile(0)>>}}

RECURSIVE SeqsUpTo(_, _)
SeqsUpTo(S, n) ==
    IF n = 0 THEN {<<>>}
    ELSE LET shorter == SeqsUpTo(S, n - 1) IN
         shorter \cup {Append(q, x) : q \in {r \in shorter : Len(r) = n - 1}, x \in S}

Metrics == {"cycles", "instructions"}

-----------------------------------------------------------------------------
(* main and parse_data                                                     *)

InitWith(files, metrics) ==
    /\ pc = "parse"
    /\ file \in files
    /\ metric \in metrics
    /\ pos = 0
    /\ l_mode = <<>>
    /\ l_batchsize = <<>>
    /\ l_batches = <<>>
    /\ l_cost = <<>>
    /\ obs = None
    /\ model = None
    /\ out = <<>>

\* a run on a profile of the benchmark, with the default --metric
Init == InitWith(SeqsUpTo(Lines, MaxLines), {"cycles"})

\* a run on a profile that probes the parser, with either --metric
InitParse == InitWith(SeqsUpTo(ParseLines, MaxParseLines), Metrics)

\* what one iteration of the loop of parse_data extracts from a line
ParsedLine(data, m) ==
    LET fn_parsed == fn_re(data.function_name)
        id_parsed == id_re(data.id)
    IN  [fn_ok |-> fn_parsed.ok,
         id_ok |-> id_parsed.ok,
         profile_ok |-> Len(data.profiles) = 1,
         mode |-> IF fn_parsed.ok THEN fn_parsed.mode ELSE <<>>,
         batchsize |-> IF id_parsed.ok THEN int(id_parsed.batchsize) ELSE 0,
         batches |-> IF id_parsed.ok THEN int(id_parsed.batches) ELSE 0,
         cost |-> IF Len(data.profiles) = 1
                  THEN data.profiles[1][valgrind_name(m)] ELSE 0]

\* one iteration of `for line in fp` that runs to its end
ParseLine ==
    /\ pc = "parse"
    /\ pos < Len(file)
    /\ LET p == ParsedLine(file[pos + 1], metric) IN
        /\ p.fn_ok /\ p.id_ok /\ p.profile_ok
        /\ l_mode' = Append(l_mode, p.mode)
        /\ l_batchsize' = Append(l_batchsize, p.batchsize)
        /\ l_batches' = Append(l_batches, p.batches)
        /\ l_cost' = Append(l_cost, p.cost)
    /\ pos' = pos + 1
    /\ UNCHANGED <<pc, file, metric, obs, model, out>>

\* ParseFail that drops the line it cannot parse and reads on
ParseFailSkip ==
    /\ pc = "parse"
    /\ pos < Len(file)
    /\ LET p == ParsedLine(file[pos + 1], metric) IN
          ~(p.fn_ok /\ p.id_ok /\ p.profile_ok)
    /\ pos' = pos + 1
    /\ UNCHANGED <<pc, file, metric, l_mode, l_batchsize, l_batches, l_cost,
                   obs, model, out>>

\* one iteration that raises: a failed assert on fn_parsed or id_parsed, or
\* the ValueError of `[profile] = data["profiles"]`; the exception leaves
\* parse_data and main, and the appends made before it stay in the locals
ParseFail ==
    /\ pc = "parse"
    /\ pos < Len(file)
    /\ LET p == ParsedLine(file[pos + 1], metric) IN
        /\ ~(p.fn_ok /\ p.id_ok /\ p.profile_ok)
        /\ l_mode' = IF p.fn_ok THEN Append(l_mode, p.mode) ELSE l_mode
        /\ l_batchsize' = IF p.fn_ok /\ p.id_ok
                          THEN Append(l_batchsize, p.batchsize) ELSE l_batchsize
        /\ l_batches' = IF p.fn_ok /\ p.id_ok
                        THEN Append(l_batches, p.batches) ELSE l_batches
    /\ pc' = "failed"
    /\ UNCHANGED <<file, metric, pos, l_cost, obs, model, out>>

\* pl.DataFrame(data): a table is a record of columns
DataFrame(data) == data

\* the end of the loop: parse_data returns the DataFrame of its four lists
ParseReturn ==
    /\ pc = "parse"
    /\ pos = Len(file)
    /\ obs' = Some(DataFrame([mode |-> l_mode, batchsize |-> l_batchsize,
                         batches |-> l_batches, cost |-> l_cost]))
    /\ pc' = "print_input"
    /\ UNCHANGED <<file, metric, pos, l_mode, l_batchsize, l_batches, l_cost,
                   model, out>>

\* print_df(df, title)
print_df(o, df, title) == Append(o, [title |-> title, df |-> df])

PrintInput ==
    /\ pc = "print_input"
    /\ out' = print_df(out, obs[1], "input")
    /\ pc' = "regression"
    /\ UNCHANGED <<file, metric, pos, l_mode, l_batchsize, l_batches, l_cost,
                   obs, model>>

-----------------------------------------------------------------------------
(* Exact arithmetic for the fit                                            *)

RECURSIVE SumSeq(_)
SumSeq(s) == IF Len(s) = 0 THEN 0 ELSE s[1] + SumSeq(Tail(s))

Abs(x) == IF x < 0 THEN -x ELSE x

RECURSIVE GCD(_, _)
GCD(a, b) == IF b = 0 THEN a ELSE GCD(b, a % b)

\* a rational number in lowest terms, den > 0
Rat(n, d) ==
    LET g == GCD(Abs(n), Abs(d))
        sgn == IF d < 0 THEN -1 ELSE 1
    IN  [nan |-> FALSE, num |-> sgn * (n \div g), den |-> sgn * (d \div g)]

NaN == [nan |-> TRUE, num |-> 0, den |-> 0]

\* int(x) of a float: truncation toward zero
Trunc(n, d) == IF n >= 0 THEN n \div d ELSE -((-n) \div d)

\* determinant of a square matrix (a sequence of rows), by expansion along row 1
RECURSIVE Det(_)
Det(M) ==
    LET n == Len(M)
        Minor(j) == [r \in 1..(n - 1) |->
                       [c \in 1..(n - 1) |-> M[r + 1][IF c < j THEN c ELSE c + 1]]]
    IN  IF n = 0 THEN 1
        ELSE IF n = 1 THEN M[1][1]
        ELSE SumSeq([j \in 1..n |->
                 (IF j % 2 = 1 THEN 1 ELSE -1) * M[1][j] * Det(Minor(j))])

-----------------------------------------------------------------------------
(* Tables                                                                  *)

\* the rows idx (a sequence of row numbers) of the table df, in that order
TakeRows(df, idx) ==
    [c \in DOMAIN df |-> [k \in 1..Len(idx) |-> df[c][idx[k]]]]

\* df.filter(pl.col("mode") == m)
FilterMode(df, m) ==
    LET Keep(i) == df.mode[i] = m IN
    TakeRows(df, SelectSeq([i \in 1..Len(df.mode) |-> i], Keep))

\* Unique without maintain_order: the distinct values in another order
RECURSIVE UniqueUnordered(_)
UniqueUnordered(s) ==
    IF Len(s) = 0 THEN <<>>
    ELSE LET rest == UniqueUnordered(Tail(s)) IN
         IF \E i \in 1..Len(rest) : rest[i] = s[1]
         THEN rest ELSE Append(rest, s[1])

\* df["mode"].unique(maintain_order=True): first occurrences, in order
RECURSIVE Unique(_)
Unique(s) ==
    IF Len(s) = 0 THEN <<>>
    ELSE LET init == Unique(SubSeq(s, 1, Len(s) - 1))
             last == s[Len(s)]
         IN  IF \E i \in 1..Len(init) : init[i] = last
             THEN init ELSE Append(init, last)

\* s < t for two strings of lowercase letters, as Python compares str
RECURSIVE StrLess(_, _)
StrLess(s, t) ==
    IF Len(t) = 0 THEN FALSE
    ELSE IF Len(s) = 0 THEN TRUE
    ELSE IF s[1] = t[1] THEN StrLess(Tail(s), Tail(t))
    ELSE LowerRank[s[1]] < LowerRank[t[1]]

\* sorted(S) for a set of strings
RECURSIVE sorted(_)
sorted(S) ==
    IF S = {} THEN <<>>
    ELSE LET least == CHOOSE x \in S : \A y \in S \ {x} : StrLess(x, y)
         IN  <<least>> \o sorted(S \ {least})

Range(s) == {s[i] : i \in DOMAIN s}

-----------------------------------------------------------------------------
(* regression                                                              *)

\* df.with_columns((batchsize * batches).alias("totalrows"))
WithTotalRows(df) ==
    [mode |-> df.mode, batchsize |-> df.batchsize, batches |-> df.batches,
     cost |-> df.cost,
     totalrows |-> [k \in 1..Len(df.mode) |-> df.batchsize[k] * df.batches[k]]]

\* the columns of X after np.hstack: totalrows, batches, ones
Features == 1..3

\* X = hstack([df_sub.select("totalrows", "batches"), ones])
DesignMatrix(df_sub) ==
    [k \in 1..Len(df_sub.mode) |-> <<df_sub.totalrows[k], df_sub.batches[k], 1>>]

\* StandardScaler(with_mean=False).fit(X).scale_ for column j, as its square:
\* the variance of the column, and 1 where the variance is 0
ScaleSq(X, j) ==
    LET n == Len(X)
        s1 == SumSeq([k \in 1..n |-> X[k][j]])
        s2 == SumSeq([k \in 1..n |-> X[k][j] * X[k][j]])
        v == n * s2 - s1 * s1
    IN  IF v = 0 THEN Rat(1, 1) ELSE Rat(v, n * n)

\* the least-squares solution of X c = y with the support S (c[j] = 0 outside
\* S), by Cramer's rule on the normal equations: c[j] = num[j] / den
LeastSquares(X, y, S) ==
    LET n == Len(X)
        G == [i \in Features |-> [j \in Features |->
                 SumSeq([k \in 1..n |-> X[k][i] * X[k][j]])]]
        b == [i \in Features |-> SumSeq([k \in 1..n |-> X[k][i] * y[k]])]
        InS(j) == j \in S
        s == SelectSeq(<<1, 2, 3>>, InS)
        m == Len(s)
        GS == [r \in 1..m |-> [c \in 1..m |-> G[s[r]][s[c]]]]
        Replaced(a) == [r \in 1..m |-> [c \in 1..m |->
                          IF c = a THEN b[s[r]] ELSE G[s[r]][s[c]]]]
        Pos(j) == CHOOSE a \in 1..m : s[a] = j
        num == [j \in Features |-> IF j \in S THEN Det(Replaced(Pos(j))) ELSE 0]
    IN  [support |-> S,
         den |-> Det(GS),
         num |-> num,
         \* den * (X^T (y - X c))[j], the gradient that decides optimality
         grad |-> [j \in Features |->
                     b[j] * Det(GS) - SumSeq([i \in 1..3 |-> G[j][i] * num[i]])]]

\* Positive without the constraint (positive=False)
PositiveOff(sol) == TRUE

\* positive=True: no coefficient is negative
Positive(sol) == \A j \in Features : sol.num[j] >= 0

\* LinearRegression(positive=True, fit_intercept=False).fit(X, y).coef_,
\* mapped back through the scaler (coef = reg.coef_ / scaler.scale_).
\* The fit is scipy's non-negative least squares on the scaled X. Scaling a
\* column by s > 0 scales its coefficient by s and the division undoes it, so
\* in exact arithmetic coef is a minimiser of |X c - y| over c >= 0 for the
\* unscaled X. Where the minimiser is not unique the solver returns one whose
\* support has independent columns; which one is left open here: every such
\* minimiser (Karush-Kuhn-Tucker: zero gradient on the support, no ascent
\* direction outside it) is a possible result.
Coef(X, y) ==
    {sol \in {LeastSquares(X, y, S) : S \in SUBSET Features} :
        /\ sol.den > 0
        /\ Positive(sol)
        /\ \A j \in Features \ sol.support : sol.grad[j] <= 0}

\* reg.score(X, y): r2_score of the predictions against y
Score(X, y, sol) ==
    LET n == Len(X)
        \* den^2 * sum of squared residuals
        num2 == SumSeq([k \in 1..n |->
                   LET r == sol.den * y[k]
                            - SumSeq([j \in 1..3 |-> sol.num[j] * X[k][j]])
                   IN  r * r])
        \* n * sum of squares of y about its mean
        tot == n * SumSeq([k \in 1..n |-> y[k] * y[k]])
               - SumSeq(y) * SumSeq(y)
    IN  IF n < 2 THEN NaN                  \* "not well-defined with less than two samples"
        ELSE IF num2 = 0 THEN Rat(1, 1)
        ELSE IF tot = 0 THEN Rat(0, 1)
        ELSE Rat(sol.den * sol.den * tot - num2 * n, sol.den * sol.den * tot)

\* Sub without the filter: every mode is fitted from all observations
SubAll(df, m) == df

\* the observations regression fits the row of mode m from
Sub(df, m) == FilterMode(df, m)

\* the rows one iteration of `for m in sorted(df["mode"].unique())` may append
FitMode(df, m) ==
    LET df_sub == Sub(df, m)
        X == DesignMatrix(df_sub)
        y == df_sub.cost
    IN  {[mode |-> m,
          cost_row |-> Trunc(sol.num[1], sol.den),
          cost_call |-> Trunc(sol.num[2], sol.den),
          cost_cached |-> Trunc(sol.num[3], sol.den),
          score |-> Score(X, y, sol)] : sol \in Coef(X, y)}

\* the lists of rows the loop may build for the modes ms, in that order
RECURSIVE FitAll(_, _)
FitAll(df, ms) ==
    IF Len(ms) = 0 THEN {<<>>}
    ELSE {<<row>> \o rest : row \in FitMode(df, ms[1]), rest \in FitAll(df, Tail(ms))}

\* pl.DataFrame of the five lists
CostModel(rows) ==
    [mode |-> [k \in 1..Len(rows) |-> rows[k].mode],
     cost_row |-> [k \in 1..Len(rows) |-> rows[k].cost_row],
     cost_call |-> [k \in 1..Len(rows) |-> rows[k].cost_call],
     cost_cached |-> [k \in 1..Len(rows) |-> rows[k].cost_cached],
     score |-> [k \in 1..Len(rows) |-> rows[k].score]]

\* an order of rows that .sort(key) may produce
InOrder(df, key, p) ==
    \A i, j \in 1..Len(p) : i < j => df[key][p[i]] <= df[key][p[j]]

\* df.sort(key): rows in ascending order of key; polars does not keep the
\* order of equal keys unless maintain_order is set, so any order of them
Sort(df, key) ==
    LET n == Len(df[key]) IN
    {TakeRows(df, p) : p \in {q \in [1..n -> 1..n] :
                                /\ \A i, j \in 1..n : i # j => q[i] # q[j]
                                /\ InOrder(df, key, q)}}

\* regression(df), every table it may return
regression(df) ==
    LET d == WithTotalRows(df) IN
    UNION {Sort(CostModel(rows), "cost_row") :
              rows \in FitAll(d, sorted(Range(d.mode)))}

\* Regression run before the input table is printed
RegressionEarly ==
    /\ pc = "print_input"
    /\ \E t \in regression(obs[1]) : model' = Some(t)
    /\ pc' = "print_model"
    /\ UNCHANGED <<file, metric, pos, l_mode, l_batchsize, l_batches, l_cost,
                   obs, out>>

Regression ==
    /\ pc = "regression"
    /\ \E t \in regression(obs[1]) : model' = Some(t)
    /\ pc' = "print_model"
    /\ UNCHANGED <<file, metric, pos, l_mode, l_batchsize, l_batches, l_cost,
                   obs, out>>

PrintCostModel ==
    /\ pc = "print_model"
    /\ out' = print_df(out, model[1], "cost model")
    /\ pc' = "delta_abs"
    /\ UNCHANGED <<file, metric, pos, l_mode, l_batchsize, l_batches, l_cost,
                   obs, model>>

-----------------------------------------------------------------------------
(* calc_delta                                                              *)

\* df.filter(pl.col("mode") == m).row(0, named=True)
Row(df, m) ==
    LET sub == FilterMode(df, m) IN [c \in DOMAIN df |-> sub[c][1]]

\* col.startswith("cost_"), on the column names of the cost model
StartsWithCost(col) == col \in {"cost_row", "cost_call", "cost_cached"}

\* SkipPair with > for >=: modes of equal cost_row are compared
SkipPairStrict(row1, row2) == row1.cost_row > row2.cost_row

\* the test that skips a pair: `if row1["cost_row"] >= row2["cost_row"]: continue`
SkipPair(row1, row2) == row1.cost_row >= row2.cost_row

\* `for m1 in modes`, from the k-th mode on: the pairs it appends
RECURSIVE InnerLoop(_, _, _, _)
InnerLoop(df, modes, m2, k) ==
    IF k > Len(modes) THEN <<>>
    ELSE (IF SkipPair(Row(df, modes[k]), Row(df, m2))
          THEN <<>>
          ELSE <<[baseline |-> modes[k], mode |-> m2]>>)
         \o InnerLoop(df, modes, m2, k + 1)

\* `for m2 in modes`, from the k-th mode on
RECURSIVE OuterLoop(_, _, _)
OuterLoop(df, modes, k) ==
    IF k > Len(modes) THEN <<>>
    ELSE InnerLoop(df, modes, modes[k], 1) \o OuterLoop(df, modes, k + 1)

\* the (baseline, mode) pairs of calc_delta, in the order they are appended
Pairs(df, modes) == OuterLoop(df, modes, 1)

\* Divisor without the max: the baseline's value itself
DivisorRaw(a) == a

\* max(1, float(a))
Divisor(a) == IF a > 1 THEN a ELSE 1

\* the three lambdas main passes as op: a is the baseline's value, b the mode's
Ops == {"abs", "rel1", "rel2"}

Op(op, a, b) ==
    CASE op = "abs" -> b - a
      [] op = "rel1" -> Rat(b - a, Divisor(a))
      [] op = "rel2" -> Rat(b, Divisor(a))

\* op(a, b) raises ZeroDivisionError
OpRaises(op, a, b) == op # "abs" /\ Divisor(a) = 0

\* Entry with the arguments of op exchanged
EntrySwapped(op, row1, row2, col) == Op(op, row2[col], row1[col])

\* `array.append(op(row1[col], row2[col]))`
Entry(op, row1, row2, col) == Op(op, row1[col], row2[col])

\* calc_delta(df, op) raises
calc_delta_raises(df, op) ==
    LET pairs == Pairs(df, Unique(df.mode)) IN
    \E k \in 1..Len(pairs) : \E col \in {c \in DOMAIN df : StartsWithCost(c)} :
        OpRaises(op, Row(df, pairs[k].baseline)[col], Row(df, pairs[k].mode)[col])

\* calc_delta(df, op): the columns mode and baseline and one column of deltas
\* for each column of df whose name starts with "cost_"
calc_delta(df, op) ==
    LET pairs == Pairs(df, Unique(df.mode))
        cols == {c \in DOMAIN df : StartsWithCost(c)}
    IN  [c \in {"mode", "baseline"} \cup cols |->
           [k \in 1..Len(pairs) |->
              CASE c = "mode" -> pairs[k].mode
                [] c = "baseline" -> pairs[k].baseline
                [] OTHER -> Entry(op, Row(df, pairs[k].baseline),
                                  Row(df, pairs[k].mode), c)]]

\* print_df(df=calc_delta(df, op), title=...), or the exception of calc_delta
Report(op, title, next) ==
    /\ IF calc_delta_raises(model[1], op)
       THEN /\ pc' = "failed"
            /\ out' = out
       ELSE /\ pc' = next
            /\ out' = print_df(out, calc_delta(model[1], op), title)
    /\ UNCHANGED <<file, metric, pos, l_mode, l_batchsize, l_batches, l_cost,
                   obs, model>>

DeltaAbs == pc = "delta_abs" /\ Report("abs", "delta abs", "delta_rel1")

DeltaRel1 == pc = "delta_rel1" /\ Report("rel1", "delta rel1", "delta_rel2")

DeltaRel2 == pc = "delta_rel2" /\ Report("rel2", "delta rel2", "done")

-----------------------------------------------------------------------------

Next ==
    \/ ParseLine
    \/ ParseFail
    \/ ParseReturn
    \/ PrintInput
    \/ Regression
    \/ PrintCostModel
    \/ DeltaAbs
    \/ DeltaRel1
    \/ DeltaRel2

Spec == Init /\ [][Next]_vars

SpecParse == InitParse /\ [][Next]_vars

-----------------------------------------------------------------------------
(* Properties                                                              *)

Titles == <<"input", "cost model", "delta abs", "delta rel1", "delta rel2">>

CostCols == {"cost_row", "cost_call", "cost_cached"}

\* the printed delta tables: positions 3..5 of the output
DeltaPrinted == {k \in 3..5 : k <= Len(out)}

\* the value of column col in the cost-model row of mode m
Coefficient(col, m) ==
    model[1][col][CHOOSE i \in 1..Len(model[1].mode) : model[1].mode[i] = m]

ModelModes == Range(model[1].mode)

\* C1: a printed delta table has a row (mode = m2, baseline = m1) exactly when
\* cost_row(m1) < cost_row(m2); so no row compares a mode with itself, and
\* two modes of equal cost_row are compared in neither direction.
C1_RowIffStrictlyLower ==
    \A k \in DeltaPrinted :
        LET T == out[k].df
            HasRow(m2, m1) == \E i \in 1..Len(T.mode) :
                                  T.mode[i] = m2 /\ T.baseline[i] = m1
        IN  /\ \A m1, m2 \in ModelModes :
                  HasRow(m2, m1) <=>
                      Coefficient("cost_row", m1) < Coefficient("cost_row", m2)
            /\ \A i \in 1..Len(T.mode) : T.mode[i] # T.baseline[i]
            /\ \A m1, m2 \in ModelModes :
                  Coefficient("cost_row", m1) = Coefficient("cost_row", m2)
                      => ~HasRow(m2, m1) /\ ~HasRow(m1, m2)

\* two modes of equal cost_row and a pair of different cost_row, all reports printed
C1_Witness ==
    /\ Len(out) = 5
    /\ Len(out[3].df.mode) >= 1
    /\ \E m1, m2 \in ModelModes :
           m1 # m2 /\ Coefficient("cost_row", m1) = Coefficient("cost_row", m2)

\* C2: a delta table has the columns mode, baseline, cost_row, cost_call and
\* cost_cached (none for score), all of one length; the entry of a coefficient
\* column is op(baseline's coefficient, mode's coefficient): in "delta abs"
\* the mode's minus the baseline's, in "delta rel1" that difference over
\* max(1, baseline's), in "delta rel2" the mode's over max(1, baseline's).
C2_EntryIsOpOfBaselineAndMode ==
    \A k \in DeltaPrinted :
        LET T == out[k].df IN
        /\ DOMAIN T = {"mode", "baseline"} \cup CostCols
        /\ \A c \in DOMAIN T : Len(T[c]) = Len(T.mode)
        /\ \A i \in 1..Len(T.mode) : \A c \in CostCols :
              LET a == Coefficient(c, T.baseline[i])
                  b == Coefficient(c, T.mode[i])
                  d == IF a >= 1 THEN a ELSE 1
                  v == T[c][i]
              IN  CASE k = 3 -> v = b - a
                    [] k = 4 -> ~v.nan /\ v.den > 0 /\ v.num * d = (b - a) * v.den
                    [] k = 5 -> ~v.nan /\ v.den > 0 /\ v.num * d = b * v.den

\* all reports printed, with a delta row whose baseline coefficient is at
\* least 2 (a divisor other than 1) and differs from the mode's
C2_Witness ==
    /\ Len(out) = 5
    /\ \E i \in 1..Len(out[3].df.mode) : \E c \in CostCols :
          /\ Coefficient(c, out[3].df.baseline[i]) >= 2
          /\ out[3].df[c][i] # 0

\* the design matrix and the costs regression fits mode m from
GroupX(m) == DesignMatrix(FilterMode(WithTotalRows(obs[1]), m))
GroupY(m) == FilterMode(WithTotalRows(obs[1]), m).cost

\* C3: every row regression returns has cost_row, cost_call and cost_cached
\* that are non-negative integers; every divisor scaler.scale_ is positive.
C3_CoefficientsNonNegative ==
    model # None =>
        /\ \A c \in CostCols : \A i \in 1..Len(model[1].mode) :
              model[1][c][i] \in Nat
        /\ \A m \in ModelModes : \A j \in Features :
              LET s2 == ScaleSq(GroupX(m), j) IN ~s2.nan /\ s2.num > 0 /\ s2.den > 0

\* a mode fitted from three observations whose constrained fit leaves a
\* residual and has a coefficient that int() rounds down
C3_Witness ==
    /\ model # None
    /\ \E i \in 1..Len(model[1].mode) :
          LET m == model[1].mode[i] IN
          /\ Len(GroupY(m)) = 3
          /\ ~model[1].score[i].nan
          /\ 0 < model[1].score[i].num
          /\ model[1].score[i].num < model[1].score[i].den
          /\ \E sol \in Coef(GroupX(m), GroupY(m)) :
                /\ \E j \in Features : sol.num[j] % sol.den # 0
                /\ model[1].cost_row[i] = Trunc(sol.num[1], sol.den)
                /\ model[1].cost_call[i] = Trunc(sol.num[2], sol.den)
                /\ model[1].cost_cached[i] = Trunc(sol.num[3], sol.den)

\* C4: the score regression reports for each mode lies in [0, 1].
C4_ScoreInUnitInterval ==
    model # None =>
        \A i \in 1..Len(model[1].mode) :
            LET sc == model[1].score[i] IN
            ~sc.nan /\ sc.den > 0 /\ 0 <= sc.num /\ sc.num <= sc.den

\* the score of a mode with at least two observations does lie in [0, 1]
\* (the costs of the profiles are non-negative)
ScoreInUnitIntervalFromTwo ==
    model # None =>
        \A i \in 1..Len(model[1].mode) :
            LET sc == model[1].score[i] IN
            /\ sc.nan <=> Len(GroupY(model[1].mode[i])) < 2
            /\ ~sc.nan => sc.den > 0 /\ 0 <= sc.num /\ sc.num <= sc.den

\* C5: every observation parse_data returns has a positive batch size and a
\* positive batch count.
C5_ShapePositive ==
    obs # None =>
        \A i \in 1..Len(obs[1].mode) :
            obs[1].batchsize[i] > 0 /\ obs[1].batches[i] > 0

\* the observations of mode m alone, with their totalrows
OwnRows(m) ==
    LET d == WithTotalRows(obs[1])
        own == {k \in 1..Len(d.mode) : d.mode[k] = m}
        idx == SelectSeq([k \in 1..Len(d.mode) |-> k], LAMBDA k : k \in own)
    IN  [c \in DOMAIN d |-> [k \in 1..Len(idx) |-> d[c][idx[k]]]]

\* C7: regression returns one row for each mode of the observations and for
\* no other, no mode twice; the row of a mode is a fit of the observations
\* of that mode alone (checked where regression returns; the tables do not
\* change afterwards); the rows are in ascending order of cost_row.
C7_OneRowPerMode ==
    model # None =>
        LET M == model[1]
            n == Len(M.mode)
        IN  /\ Range(M.mode) = Range(obs[1].mode)
            /\ \A i, j \in 1..n : i # j => M.mode[i] # M.mode[j]
            /\ \A c \in DOMAIN M : Len(M[c]) = n
            /\ pc = "print_model" => \A i \in 1..n :
                  [mode |-> M.mode[i], cost_row |-> M.cost_row[i],
                   cost_call |-> M.cost_call[i],
                   cost_cached |-> M.cost_cached[i],
                   score |-> M.score[i]] \in FitMode(OwnRows(M.mode[i]), M.mode[i])
            /\ \A i \in 1..(n - 1) : M.cost_row[i] <= M.cost_row[i + 1]

\* two modes whose rows the sort had to exchange, one of them fitted from
\* two observations
C7_Witness ==
    /\ model # None
    /\ Len(model[1].mode) = 2
    /\ Len(obs[1].mode) = 3
    /\ StrLess(model[1].mode[2], model[1].mode[1])
    /\ model[1].cost_row[1] < model[1].cost_row[2]

\* C6: the tables are printed in the order input, cost model, delta abs,
\* delta rel1, delta rel2; the input table is the one parse_data returned and
\* is printed before regression runs; the cost model has the modes of that
\* table and is printed before any delta; every delta table is computed from
\* the printed cost model; once a stage has failed nothing runs and
\* nothing more is printed.
C6_StageOrderState ==
    /\ \A k \in 1..Len(out) : out[k].title = Titles[k]
    /\ obs # None => pos = Len(file)
    /\ Len(out) >= 1 => obs # None /\ out[1].df = obs[1]
    /\ model # None => Len(out) >= 1
    /\ model # None => Range(model[1].mode) = Range(out[1].df.mode)
    /\ Len(out) >= 2 => model # None /\ out[2].df = model[1]
    /\ Len(out) >= 3 => out[3].df = calc_delta(out[2].df, "abs")
    /\ Len(out) >= 4 => out[4].df = calc_delta(out[2].df, "rel1")
    /\ Len(out) >= 5 => out[5].df = calc_delta(out[2].df, "rel2")
    /\ pc = "failed" /\ obs = None => model = None /\ out = <<>>
    /\ pc = "failed" /\ model = None => Len(out) <= 1

C6_FailedStops ==
    pc = "failed" => pc' = "failed" /\ out' = out /\ obs' = obs /\ model' = model

\* C6, as one formula: the order holds in every state and a failed run stays put
C6_StagesInOrder == [](C6_StageOrderState) /\ [][C6_FailedStops]_vars

\* a run that printed all five tables with at least one delta row
C6_Witness ==
    /\ pc = "done"
    /\ Len(out) = 5
    /\ Len(out[5].df.mode) >= 1
    /\ Len(file) = 3

\* s is "bench_" followed by the lowercase letters m and no further one
FnHasMode(s, m) ==
    /\ Len(m) >= 1
    /\ \A i \in 1..Len(m) : m[i] \in Lower
    /\ Len(s) >= 6 + Len(m)
    /\ SubSeq(s, 1, 6 + Len(m)) = <<"b","e","n","c","h","_">> \o m
    /\ Len(s) > 6 + Len(m) => s[7 + Len(m)] \notin Lower

\* s is "batchsize_", n1 digits, "_batches_", n2 digits and no further digit
IdSplits(s, n1, n2) ==
    /\ Len(s) >= 19 + n1 + n2
    /\ SubSeq(s, 1, 10) = <<"b","a","t","c","h","s","i","z","e","_">>
    /\ SubSeq(s, 11 + n1, 19 + n1) = <<"_","b","a","t","c","h","e","s","_">>
    /\ \A i \in 11..(10 + n1) : s[i] \in Digits
    /\ \A i \in (20 + n1)..(19 + n1 + n2) : s[i] \in Digits
    /\ Len(s) > 19 + n1 + n2 => s[20 + n1 + n2] \notin Digits

\* the id s names the batch size bs and the batch count bt
IdHasShape(s, bs, bt) ==
    \E n1, n2 \in 1..(Len(s) - 19) :
        /\ IdSplits(s, n1, n2)
        /\ int(SubSeq(s, 11, 10 + n1)) = bs
        /\ int(SubSeq(s, 20 + n1, 19 + n1 + n2)) = bt

\* a line parse_data accepts
Accepts(line) ==
    /\ \E n \in 1..(Len(line.function_name) - 6) :
          FnHasMode(line.function_name, SubSeq(line.function_name, 7, 6 + n))
    /\ \E n1, n2 \in 1..(Len(line.id) - 19) : IdSplits(line.id, n1, n2)
    /\ Len(line.profiles) = 1

\* C8: parse_data returns one observation per line, in the order of the
\* lines, in four columns of equal length; it returns a table only if it
\* accepts every line; the first line it does not accept raises, and then no
\* table is returned and nothing is printed.
C8_OneObservationPerLine ==
    /\ \A i \in 1..pos : Accepts(file[i])
    /\ obs # None =>
          /\ \A c \in DOMAIN obs[1] : Len(obs[1][c]) = Len(file)
          /\ DOMAIN obs[1] = {"mode", "batchsize", "batches", "cost"}
          /\ \A i \in 1..Len(file) :
                /\ FnHasMode(file[i].function_name, obs[1].mode[i])
                /\ IdHasShape(file[i].id, obs[1].batchsize[i], obs[1].batches[i])
                /\ obs[1].cost[i] = file[i].profiles[1][valgrind_name(metric)]
    /\ (\E i \in 1..Len(file) : ~Accepts(file[i])) => obs = None /\ out = <<>>
    /\ pc = "parse" /\ pos < Len(file) /\ ~Accepts(file[pos + 1]) =>
          ENABLED ParseFail /\ ~ENABLED ParseLine
    /\ pc = "failed" => ~Accepts(file[pos + 1]) /\ obs = None

\* the second line is rejected at its id after its mode was appended: the
\* locals are of unequal length and no table is returned
C8_Witness ==
    /\ pc = "failed"
    /\ pos = 1
    /\ Len(l_mode) = 2
    /\ Len(l_batchsize) = 1
    /\ obs = None

\* C9: the delta reports leave the cost model as it was printed; the three
\* reports list the same (mode, baseline) pairs in the same order; the rows
\* are grouped by mode, the modes in ascending order of cost_row and the
\* baselines of one mode in ascending order of cost_row; there is one row for
\* each unordered pair of modes whose cost_row values differ.
C9_PairsIndependentOfOp ==
    /\ Len(out) >= 2 => model[1] = out[2].df
    /\ \A k \in DeltaPrinted :
          LET T == out[k].df
              n == Len(T.mode)
          IN  /\ T.mode = out[3].df.mode /\ T.baseline = out[3].df.baseline
              /\ \A i, j \in 1..n : i < j =>
                    /\ Coefficient("cost_row", T.mode[i])
                          <= Coefficient("cost_row", T.mode[j])
                    /\ T.mode[i] = T.mode[j] =>
                          /\ Coefficient("cost_row", T.baseline[i])
                                <= Coefficient("cost_row", T.baseline[j])
                          /\ \A h \in i..j : T.mode[h] = T.mode[i]
              /\ n = Cardinality({p \in SUBSET ModelModes :
                        /\ Cardinality(p) = 2
                        /\ \E m1, m2 \in p : Coefficient("cost_row", m1)
                                               # Coefficient("cost_row", m2)})

\* three modes of three different cost_row values: three delta rows, two of
\* them for the costliest mode
C9_Witness ==
    /\ Len(out) = 5
    /\ Len(out[5].df.mode) = 3
    /\ out[5].df.mode[2] = out[5].df.mode[3]
    /\ out[5].df.mode[1] = out[5].df.baseline[3]

\* C10: the divisor max(1, baseline's coefficient) is at least 1 for every
\* coefficient of the cost model, and no report fails with a division by
\* zero; the cost_row entry of a delta row is positive in "delta abs", positive
\* in "delta rel1" and at least 1 in "delta rel2".
C10_DivisorAtLeastOne ==
    /\ model # None =>
          \A c \in CostCols : \A i \in 1..Len(model[1].mode) :
              model[1][c][i] >= 0 /\ Divisor(model[1][c][i]) >= 1
    /\ pc = "failed" => model = None
    /\ Len(out) >= 3 => \A i \in 1..Len(out[3].df.mode) : out[3].df.cost_row[i] > 0
    /\ Len(out) >= 4 => \A i \in 1..Len(out[4].df.mode) :
          LET v == out[4].df.cost_row[i] IN ~v.nan /\ v.den > 0 /\ v.num > 0
    /\ Len(out) >= 5 => \A i \in 1..Len(out[5].df.mode) :
          LET v == out[5].df.cost_row[i] IN ~v.nan /\ v.den > 0 /\ v.num >= v.den

\* all reports printed, with a delta row whose baseline has cost_row = 0 and
\* another coefficient that is 0 as well
C10_Witness ==
    /\ Len(out) = 5
    /\ \E i \in 1..Len(out[5].df.mode) :
          /\ Coefficient("cost_row", out[5].df.baseline[i]) = 0
          /\ Coefficient("cost_cached", out[5].df.baseline[i]) = 0

====
